---- MODULE Spec2Model ----
(***************************************************************************)
(* PNGtoICO: the PNG header reader (src/src/png_parser.rs) and the ICO     *)
(* container writer (src/src/ico_writer.rs).                               *)
(*                                                                         *)
(* Representation of data.                                                 *)
(*  - A byte vector (Vec<u8>, a file's content) is a record                *)
(*    [head, blocks]: the bytes of `head`, followed by `blocks` blocks of  *)
(*    Block = 2^30 zero bytes each.  This lets a file be 4 GiB long        *)
(*    without enumerating its bytes.                                       *)
(*  - A usize, and a u32 obtained from a usize, is a record [hi, lo]       *)
(*    standing for hi * 2^30 + lo with lo < 2^30 (the values exceed the    *)
(*    range of the model checker's integers).  A u32 has hi < 4.           *)
(*  - The u32 fields of the PNG header are plain integers; the input       *)
(*    files keep their top byte below 128.                                 *)
(*  - A Result is a record [kind, msg, meta]: kind "ok", "err" (msg is the *)
(*    &'static str of the Err), or "panic" (the thread aborts).            *)
(***************************************************************************)
EXTENDS Integers, Sequences, FiniteSets, TLC

\* ------------------------------------------------------------------ bounds
\* Bytes of the input file after the 29 bytes of signature and IHDR.
MaxExtra == 4
\* Number of 2^30-byte blocks that follow the head of the largest input file.
MaxBlocks == 4

\* ------------------------------------------------------- integers and bytes
Block == 64 * 16777216

\* Vec::len: a usize.
VecLen(v) == [hi |-> v.blocks, lo |-> Len(v.head)]

\* `n as u32` of a usize: the low 32 bits.
AsU32(n) == [hi |-> n.hi % 4, lo |-> n.lo]

\* `n + k` on u32 (k small).  Overflow is not reachable where the code adds:
\* the buffer holds 18 bytes there.
AddU32(n, k) ==
  LET s == n.lo + k
  IN  [hi |-> (n.hi + (s \div Block)) % 4, lo |-> s % Block]

\* usize comparison with a small constant: n < k.
UsizeLess(n, k) == n.hi = 0 /\ n.lo < k

\* u32::to_le_bytes
U32ToLeBytes(n) ==
  << n.lo % 256,
     (n.lo \div 256) % 256,
     (n.lo \div 65536) % 256,
     (n.lo \div 16777216) + 64 * n.hi >>

\* u16::to_le_bytes
U16ToLeBytes(n) == << n % 256, (n \div 256) % 256 >>

\* U32FromBeBytes reading the bytes in little-endian order.
U32FromBeBytes_LittleEndian(b) ==
  b[4] * 16777216 + b[3] * 65536 + b[2] * 256 + b[1]

\* u32::from_be_bytes (top byte below 128 in the inputs of this model)
U32FromBeBytes(b) == b[1] * 16777216 + b[2] * 65536 + b[3] * 256 + b[4]

\* u8::from_be_bytes
U8FromBeBytes(b) == b[1]

\* ------------------------------------------------------------- byte vectors
EmptyVec == [head |-> << >>, blocks |-> 0]

\* Vec::push on a vector without blocks
VecPush(v, b) == [v EXCEPT !.head = Append(@, b)]

\* Vec::extend on a vector without blocks
VecExtend(v, bytes) == [v EXCEPT !.head = @ \o bytes]

\* VecAppend losing the last listed byte of the appended vector.
VecAppend_DropLast(v, other) ==
  [head |-> v.head \o SubSeq(other.head, 1, Len(other.head) - 1),
   blocks |-> other.blocks]

\* Vec::append(&mut other) on a vector without blocks
VecAppend(v, other) == [head |-> v.head \o other.head, blocks |-> other.blocks]

\* The byte at 0-based index i of a vector, i below its length.
VecByte(v, i) == IF i < Len(v.head) THEN v.head[i + 1] ELSE 0

\* &v[from..to] with to within the vector: a plain sequence.
VecSlice(v, from, to) == [k \in 1..(to - from) |-> VecByte(v, from + k - 1)]

\* &s[from..to] of a slice
Slice(s, from, to) == SubSeq(s, from + 1, to)

\* ------------------------------------------------------------------ results
NoMeta ==
  [width |-> 0, height |-> 0, bit_depth |-> 0, color_type |-> 0,
   compression_method |-> 0, filter_method |-> 0, interlace_method |-> 0]

Ok(m) == [kind |-> "ok", msg |-> "", meta |-> m]
Err(s) == [kind |-> "err", msg |-> s, meta |-> NoMeta]
Panic == [kind |-> "panic", msg |-> "", meta |-> NoMeta]
NotCalled == [kind |-> "none", msg |-> "", meta |-> NoMeta]

\* ------------------------------------------------------------ png_parser.rs
HeaderT == "Header"
PaletteT == "Palette"
DataT == "Data"
DataEndT == "DataEnd"

\* ChunkType::parse: the tag is matched against four ASCII names.
ChunkType_parse(name) ==
  CASE name = <<73, 72, 68, 82>> -> [kind |-> "ok", type |-> HeaderT]
    [] name = <<80, 76, 84, 69>> -> [kind |-> "ok", type |-> PaletteT]
    [] name = <<73, 68, 65, 84>> -> [kind |-> "ok", type |-> DataT]
    [] name = <<73, 69, 78, 68>> -> [kind |-> "ok", type |-> DataEndT]
    [] OTHER -> [kind |-> "err", type |-> "Unknown chunk type."]

\* verify_signature: the 8 bytes as a big-endian u64, here in four 16-bit
\* limbs, against 9894494448401390090 = 0x8950 4E47 0D0A 1A0A.
SignatureHash == <<35152, 20039, 3338, 6666>>

verify_signature(signature) ==
  LET hash == [k \in 1..4 |-> signature[2 * k - 1] * 256 + signature[2 * k]]
  IN  hash = SignatureHash

\* parse_header_chunk: the slices have the length of the arrays they are
\* converted to, so no try_into fails.
parse_header_chunk(header_data) ==
  Ok([width |-> U32FromBeBytes(Slice(header_data, 0, 4)),
      height |-> U32FromBeBytes(Slice(header_data, 4, 8)),
      bit_depth |-> U8FromBeBytes(Slice(header_data, 8, 9)),
      color_type |-> U8FromBeBytes(Slice(header_data, 9, 10)),
      compression_method |-> U8FromBeBytes(Slice(header_data, 10, 11)),
      filter_method |-> U8FromBeBytes(Slice(header_data, 11, 12)),
      interlace_method |-> U8FromBeBytes(Slice(header_data, 12, 13))])

\* parse_chunk, for the chunk types parse_header can pass (Header only; the
\* Data arm is not reachable from parse_header).
parse_chunk(chunk_data, chunk_type) ==
  IF chunk_type = HeaderT
  THEN parse_header_chunk(chunk_data)
  ELSE Err("Unknown chunk type was requested to parse.")

\* parse_header on the file f = [exists, data].
parse_header(f) ==
  IF ~f.exists
  THEN Err("Could not read image file. Have you entered the path correctly?")
  ELSE IF UsizeLess(VecLen(f.data), 8)
  THEN Panic                                   \* data[..8] out of range
  ELSE IF ~verify_signature(VecSlice(f.data, 0, 8))
  THEN Err("Could not verify PNG signature.")
  ELSE IF UsizeLess(VecLen(f.data), 29)
  THEN Panic                                   \* data[12..29] out of range
  ELSE
    LET data == VecSlice(f.data, 12, 29)
        chunk == Slice(data, 0, 4)
        type == ChunkType_parse(chunk)
    IN  IF type.kind = "ok" /\ type.type = HeaderT
        THEN LET r == parse_chunk(Slice(data, 4, 17), HeaderT)
             IN  IF r.kind = "ok"
                 THEN Ok(r.meta)
                 ELSE Err("Could not parse header data.")
        ELSE Err("First chunk was not header. This is required.")

\* ------------------------------------------------------------ ico_writer.rs
\* write_icon_dir without the image count.
write_icon_dir_NoCount(b) ==
  VecExtend(VecExtend(b, U16ToLeBytes(0)), U16ToLeBytes(1))

\* write_icon_dir
write_icon_dir(b) ==
  VecExtend(VecExtend(VecExtend(b, U16ToLeBytes(0)), U16ToLeBytes(1)),
            U16ToLeBytes(1))

\* write_icon_dir_entry adding 8 instead of 4 to the buffer length.
write_icon_dir_entry_Plus8(b, m, f) ==
  LET b1 == VecPush(b, IF m.x = 256 THEN 0 ELSE m.x % 256)
      b2 == VecPush(b1, IF m.y = 256 THEN 0 ELSE m.y % 256)
      b3 == VecPush(b2, 0)
      b4 == VecPush(b3, 0)
      b5 == VecExtend(b4, U16ToLeBytes(1))
      b6 == VecExtend(b5, U16ToLeBytes(m.bit_depth))
  IN  IF ~f.exists
      THEN [res |-> Err("Could not open png file."), buf |-> b6]
      ELSE
        LET data == f.data
            b7 == VecExtend(b6, U32ToLeBytes(AsU32(VecLen(data))))
            b8 == VecExtend(b7, U32ToLeBytes(AddU32(AsU32(VecLen(b7)), 8)))
        IN  [res |-> Ok(NoMeta), buf |-> VecAppend(b8, data)]

\* write_icon_dir_entry pushing the height before the width.
write_icon_dir_entry_Swapped(b, m, f) ==
  LET b1 == VecPush(b, IF m.y = 256 THEN 0 ELSE m.y % 256)
      b2 == VecPush(b1, IF m.x = 256 THEN 0 ELSE m.x % 256)
      b3 == VecPush(b2, 0)
      b4 == VecPush(b3, 0)
      b5 == VecExtend(b4, U16ToLeBytes(1))
      b6 == VecExtend(b5, U16ToLeBytes(m.bit_depth))
  IN  IF ~f.exists
      THEN [res |-> Err("Could not open png file."), buf |-> b6]
      ELSE
        LET data == f.data
            b7 == VecExtend(b6, U32ToLeBytes(AsU32(VecLen(data))))
            b8 == VecExtend(b7, U32ToLeBytes(AddU32(AsU32(VecLen(b7)), 4)))
        IN  [res |-> Ok(NoMeta), buf |-> VecAppend(b8, data)]

\* write_icon_dir_entry on the metadata png = [x, y, bit_depth] and the file
\* at png_path; the result and the buffer it leaves.
write_icon_dir_entry(b, m, f) ==
  LET b1 == VecPush(b, IF m.x = 256 THEN 0 ELSE m.x % 256)
      b2 == VecPush(b1, IF m.y = 256 THEN 0 ELSE m.y % 256)
      b3 == VecPush(b2, 0)
      b4 == VecPush(b3, 0)
      b5 == VecExtend(b4, U16ToLeBytes(1))
      b6 == VecExtend(b5, U16ToLeBytes(m.bit_depth))
  IN  IF ~f.exists
      THEN [res |-> Err("Could not open png file."), buf |-> b6]
      ELSE
        LET data == f.data
            b7 == VecExtend(b6, U32ToLeBytes(AsU32(VecLen(data))))
            b8 == VecExtend(b7, U32ToLeBytes(AddU32(AsU32(VecLen(b7)), 4)))
        IN  [res |-> Ok(NoMeta), buf |-> VecAppend(b8, data)]

\* check_dimensions without the height check.
check_dimensions_NoHeight(m) ==
  IF m.x > 256
  THEN Err("Image width cannot be more than 256px.")
  ELSE Ok(NoMeta)

\* The dimension checks that open write_ico.
check_dimensions(m) ==
  IF m.x > 256
  THEN Err("Image width cannot be more than 256px.")
  ELSE IF m.y > 256
  THEN Err("Image height cannot be more than 256px.")
  ELSE Ok(NoMeta)

\* ------------------------------------------------------------------- inputs
Signature == <<137, 80, 78, 71, 13, 10, 26, 10>>

SigChoices ==
  {Signature, <<137, 80, 78, 71, 13, 10, 26, 11>>, <<0, 80, 78, 71, 13, 10, 26, 10>>}

TagChoices ==
  {<<73, 72, 68, 82>>, <<80, 76, 84, 69>>, <<73, 68, 65, 84>>,
   <<73, 69, 78, 68>>, <<73, 72, 68, 83>>, <<105, 104, 100, 114>>}

WidthBytes == {<<0, 0, 0, 16>>, <<0, 0, 1, 0>>, <<1, 2, 3, 4>>}

HeightBytes == {<<0, 0, 0, 32>>, <<0, 0, 1, 1>>, <<127, 0, 0, 255>>}

RestBytes == {<<8, 6, 0, 0, 0>>, <<1, 2, 3, 4, 5>>}

\* What follows the header data in a complete file.
Trailer == [k \in 1..MaxExtra |-> 200 + k]

FileLens == {0, 5, 8, 15, 16, 28, 29, 29 + MaxExtra}

FullContents ==
  {sig \o <<0, 0, 0, 13>> \o tag \o w \o h \o r \o Trailer :
     sig \in SigChoices, tag \in TagChoices, w \in WidthBytes,
     h \in HeightBytes, r \in RestBytes}

NoFile == [exists |-> FALSE, data |-> EmptyVec]

\* The files png_path can name: none, a prefix of a complete file, or a
\* complete file followed by one block or by MaxBlocks blocks.
InputFiles ==
  {NoFile}
  \cup {[exists |-> TRUE, data |-> [head |-> SubSeq(c, 1, n), blocks |-> 0]] :
          c \in FullContents, n \in FileLens}
  \cup {[exists |-> TRUE, data |-> [head |-> c, blocks |-> k]] :
          c \in FullContents, k \in {1, MaxBlocks}}

MetaInputs == [x : {16, 256, 257}, y : {32, 256, 300}, bit_depth : {8}]

NoMetaArg == [x |-> 0, y |-> 0, bit_depth |-> 0]

\* ------------------------------------------------------------------- state
VARIABLES
  png_file,   \* the file at png_path: [exists, data]
  parsed,     \* what parse_header returned, NotCalled before the call
  pc,         \* position in write_ico
  png,        \* write_ico's metadata argument
  buf,        \* write_ico's buffer
  ret,        \* what write_ico returned, NotCalled before it returns
  ico_file    \* the file at the output path: [exists, data]

vars == <<png_file, parsed, pc, png, buf, ret, ico_file>>

Init ==
  /\ png_file \in InputFiles
  /\ parsed = NotCalled
  /\ pc = "idle"
  /\ png = NoMetaArg
  /\ buf = EmptyVec
  /\ ret = NotCalled
  /\ ico_file = NoFile

\* PngParser::parse_header(png_path)
ParseHeader ==
  /\ parsed = NotCalled
  /\ parsed' = parse_header(png_file)
  /\ UNCHANGED <<png_file, pc, png, buf, ret, ico_file>>

\* write_ico, lines 29-34: the call and the dimension checks.
WriteIcoCheck(m) ==
  /\ pc = "idle"
  /\ png' = m
  /\ LET r == check_dimensions(m)
     IN  IF r.kind = "err"
         THEN pc' = "done" /\ ret' = r
         ELSE pc' = "checked" /\ ret' = ret
  /\ UNCHANGED <<png_file, parsed, buf, ico_file>>

\* write_ico, lines 36-37.
WriteIconDir ==
  /\ pc = "checked"
  /\ buf' = write_icon_dir(EmptyVec)
  /\ pc' = "dir"
  /\ UNCHANGED <<png_file, parsed, png, ret, ico_file>>

\* write_ico, line 38.
WriteIconDirEntry ==
  /\ pc = "dir"
  /\ LET r == write_icon_dir_entry(buf, png, png_file)
     IN  /\ buf' = r.buf
         /\ IF r.res.kind = "err"
            THEN pc' = "done" /\ ret' = r.res
            ELSE pc' = "entry" /\ ret' = ret
  /\ UNCHANGED <<png_file, parsed, png, ico_file>>

\* write_ico, lines 40-43: std::fs::write succeeds, fails before the file is
\* created, or fails after a part of the buffer is on disk.
PartialLens == {0, 6}

WriteFile ==
  /\ pc = "entry"
  /\ \/ /\ ico_file' = [exists |-> TRUE, data |-> buf]
        /\ ret' = Ok(NoMeta)
     \/ /\ ico_file' = ico_file
        /\ ret' = Err("Could not write icon to disk. Is the path valid?")
     \/ \E n \in PartialLens :
          /\ ico_file' = [exists |-> TRUE,
                          data |-> [head |-> SubSeq(buf.head, 1, n), blocks |-> 0]]
          /\ ret' = Err("Could not write icon to disk. Is the path valid?")
  /\ pc' = "done"
  /\ UNCHANGED <<png_file, parsed, png, buf>>

Next ==
  \/ ParseHeader
  \/ \E m \in MetaInputs : WriteIcoCheck(m)
  \/ WriteIconDir
  \/ WriteIconDirEntry
  \/ WriteFile

Spec == Init /\ [][Next]_vars

\* =================================================================== claims
\* A little-endian u32 field of a file, as [hi, lo].
LeU32(b) ==
  [hi |-> b[4] \div 64,
   lo |-> (b[4] % 64) * 16777216 + b[3] * 65536 + b[2] * 256 + b[1]]

\* write_ico returned Ok: the output file holds the assembled buffer.
Written == pc = "done" /\ ret.kind = "ok"

\* write_icon_dir_entry returned Ok: the buffer is assembled.
Assembled ==
  \/ pc = "entry"
  \/ pc = "done" /\ ret.kind = "ok"
  \/ pc = "done" /\ ret.msg = "Could not write icon to disk. Is the path valid?"

OffsetField == LeU32(VecSlice(ico_file.data, 18, 22))

\* C1 as stated: the image data offset field of every written ICO (bytes
\* 18-21, little-endian) is 26.
C1_OffsetIs26 == Written => OffsetField = [hi |-> 0, lo |-> 26]

\* C1 amended: the image data offset field of every written ICO (bytes 18-21,
\* little-endian) is 22.
C1_OffsetIs22 == Written => OffsetField = [hi |-> 0, lo |-> 22]

C1_Witness ==
  /\ Written
  /\ ico_file.exists
  /\ VecSlice(ico_file.data, 18, 22) = <<22, 0, 0, 0>>

\* C2: in every assembled buffer the offset field equals the index of the
\* first embedded PNG byte: the bytes from that index on are the PNG file
\* and the bytes before it are the directory and the entry header.
C2_OffsetPointsAtImage ==
  Assembled =>
    LET off == LeU32(VecSlice(buf, 18, 22))
        start == Len(buf.head) - Len(png_file.data.head)
    IN  /\ off = [hi |-> 0, lo |-> start]
        /\ SubSeq(buf.head, start + 1, Len(buf.head)) = png_file.data.head
        /\ buf.blocks = png_file.data.blocks
        /\ SubSeq(buf.head, 1, 6) = <<0, 0, 1, 0, 1, 0>>

C2_Witness ==
  /\ pc = "entry"
  /\ Len(png_file.data.head) = 29 + MaxExtra
  /\ LeU32(VecSlice(buf, 18, 22)).lo = Len(buf.head) - Len(png_file.data.head)

\* C3: a written ICO has byte 6 = (0 if width = 256 else width) and byte 7 =
\* (0 if height = 256 else height), for width and height up to 256.
C3_DimensionBytes ==
  /\ Written =>
       /\ png.x <= 256 /\ png.y <= 256
       /\ VecByte(ico_file.data, 6) = (IF png.x = 256 THEN 0 ELSE png.x)
       /\ VecByte(ico_file.data, 7) = (IF png.y = 256 THEN 0 ELSE png.y)
  /\ (pc = "done" /\ png.x <= 256 /\ png.y <= 256 /\ png_file.exists
        /\ ret.kind = "err")
       => ret.msg = "Could not write icon to disk. Is the path valid?"

C3_Witness ==
  /\ Written
  /\ png.x = 256 /\ png.y = 32
  /\ VecByte(ico_file.data, 6) = 0 /\ VecByte(ico_file.data, 7) = 32

\* C4: the bytes of a written ICO from offset 22 to the end are the source
\* PNG file, in content and in length.
C4_RoundTrip ==
  Written =>
    /\ SubSeq(ico_file.data.head, 23, Len(ico_file.data.head))
         = png_file.data.head
    /\ ico_file.data.blocks = png_file.data.blocks
    /\ Len(ico_file.data.head) = 22 + Len(png_file.data.head)

C4_Witness ==
  /\ Written
  /\ Len(png_file.data.head) = 29 + MaxExtra
  /\ Len(ico_file.data.head) = 51 + MaxExtra

\* C5: the output file is written only after the dimension checks and the
\* read of the source succeeded; a width above 256, a height above 256 or an
\* unreadable source makes write_ico return an error (naming the axis for a
\* dimension) and leaves no output file.
C5_NoWriteOnFailure ==
  /\ ico_file # NoFile =>
       pc = "done" /\ png.x <= 256 /\ png.y <= 256 /\ png_file.exists
  /\ (pc = "done" /\ png.x > 256) =>
       ret = Err("Image width cannot be more than 256px.") /\ ico_file = NoFile
  /\ (pc = "done" /\ png.x <= 256 /\ png.y > 256) =>
       ret = Err("Image height cannot be more than 256px.") /\ ico_file = NoFile
  /\ (pc = "done" /\ png.x <= 256 /\ png.y <= 256 /\ ~png_file.exists) =>
       ret = Err("Could not open png file.") /\ ico_file = NoFile

C5_Witness ==
  /\ pc = "done"
  /\ png.x <= 256 /\ png.y > 256
  /\ png_file.exists
  /\ ret.msg = "Image height cannot be more than 256px."
  /\ ico_file = NoFile

\* The file has the 8 bytes of the PNG signature at its start.
HasSignature(f) ==
  /\ ~UsizeLess(VecLen(f.data), 8)
  /\ VecSlice(f.data, 0, 8) = Signature

HasTag(f, tag) ==
  /\ ~UsizeLess(VecLen(f.data), 16)
  /\ VecSlice(f.data, 12, 16) = tag

ParsedFile == parsed.kind # "none" /\ png_file.exists

\* C6: parse_header returns the signature error for every file whose first 8
\* bytes are not the PNG signature, files shorter than 8 bytes included.
C6_SignatureError ==
  (ParsedFile /\ ~HasSignature(png_file))
    => parsed = Err("Could not verify PNG signature.")

\* C7: with a valid signature and the tag IHDR but fewer than 29 bytes,
\* parse_header returns an error value; it does not abort and returns no
\* metadata.
C7_TruncatedError ==
  (ParsedFile /\ HasSignature(png_file) /\ HasTag(png_file, <<73, 72, 68, 82>>)
     /\ UsizeLess(VecLen(png_file.data), 29))
    => parsed.kind = "err"

\* C8: with a valid signature (and the 29 bytes parse_header reads), a tag
\* outside IHDR, PLTE, IDAT, IEND gives the unknown-chunk error and the tags
\* PLTE, IDAT, IEND give the not-header error.
C8_TagErrorsDistinct ==
  (ParsedFile /\ HasSignature(png_file)
     /\ ~UsizeLess(VecLen(png_file.data), 29))
    => LET tag == VecSlice(png_file.data, 12, 16)
       IN  /\ tag \in {<<80, 76, 84, 69>>, <<73, 68, 65, 84>>, <<73, 69, 78, 68>>}
                => parsed = Err("First chunk was not header. This is required.")
           /\ tag \notin {<<73, 72, 68, 82>>, <<80, 76, 84, 69>>,
                          <<73, 68, 65, 84>>, <<73, 69, 78, 68>>}
                => parsed = Err("Unknown chunk type.")

\* C9: for a file of at least 29 bytes with the signature and the tag IHDR
\* at bytes 12-15, parse_header returns Ok with width and height the
\* big-endian u32 at bytes 16-19 and 20-23 and the five one-byte fields the
\* bytes 24 to 28.
C9_HeaderFields ==
  (ParsedFile /\ HasSignature(png_file) /\ HasTag(png_file, <<73, 72, 68, 82>>)
     /\ ~UsizeLess(VecLen(png_file.data), 29))
    => LET d == png_file.data
       IN  /\ parsed.kind = "ok"
           /\ parsed.meta.width =
                ((VecByte(d, 16) * 256 + VecByte(d, 17)) * 256 + VecByte(d, 18))
                  * 256 + VecByte(d, 19)
           /\ parsed.meta.height =
                ((VecByte(d, 20) * 256 + VecByte(d, 21)) * 256 + VecByte(d, 22))
                  * 256 + VecByte(d, 23)
           /\ parsed.meta.bit_depth = VecByte(d, 24)
           /\ parsed.meta.color_type = VecByte(d, 25)
           /\ parsed.meta.compression_method = VecByte(d, 26)
           /\ parsed.meta.filter_method = VecByte(d, 27)
           /\ parsed.meta.interlace_method = VecByte(d, 28)

C9_Witness ==
  /\ parsed.kind = "ok"
  /\ Len(png_file.data.head) = 29
  /\ parsed.meta.width = 16909060
  /\ parsed.meta.height = 257
  /\ parsed.meta.bit_depth = 8
  /\ parsed.meta.color_type = 6

\* C10: the image data size field of a written ICO (bytes 14-17,
\* little-endian) is the byte length of the source PNG file.
C10_SizeIsFileLength ==
  Written => LeU32(VecSlice(ico_file.data, 14, 18)) = VecLen(png_file.data)

====
